---- MODULE Spec2Model ----
(***************************************************************************)
(* Model of the MECE segmentation pipeline of cart_retention_mece_dashboard *)
(* (segmentation_engine.py, segment_optimizer.py, output_generator.py,      *)
(* segment_and_score_clean.py).                                             *)
(*                                                                          *)
(* Numbers.  avg_order_value and sessions_last_30d are integers.            *)
(* A percentile is kept multiplied by 100, which makes numpy's linear       *)
(* interpolation exact in integers: a value v is compared with a            *)
(* percentile p as v * 100 against p.  A mean is kept as the pair           *)
(* [num, den] of the sum and the count.                                     *)
(*                                                                          *)
(* Keys.  A segment key "A_E_P", "A_E_P_SPLIT_n" or "A_E_P_SPLIT_Qn" is the *)
(* tuple <<A, E, P, mode, n>> with mode "" (n = 0), "SPLIT" or "SPLIT_Q".   *)
(***************************************************************************)
EXTENDS Integers, Sequences, FiniteSets, TLC

\* ------------------------------------------------------------------ bounds

\* Largest number of records in the analysis window.
NumUsers == 3

\* min_size is drawn from 1..MaxMinSize, max_size from 1..MaxMaxSize.
MaxMinSize == 2

MaxMaxSize == 2

AOVValues == {10, 90}

\* engagement_score and profitability_score in tenths (0.2, 0.8).
EngValues == {2, 8}

ProfValues == {2, 8}

SessionValues == {1, 2}

\* Every record was abandoned three days before the end of the window.
DaysValues == {3}

UserIds == 1..NumUsers

\* ------------------------------------------------------------------ state

VARIABLES
    pc,           \* position of run_segmentation
    input_file_exists, \* os.path.exists(input_file)
    universe,     \* the window's records, in row order; user_id = row number
    percentiles,  \* compute_percentiles' result, each times 100
    leaf_segment, \* user_id -> leaf key, the column assign_decision_tree_bins adds
    segments,     \* the registry: dict entries in insertion order
    min_size,
    max_size,
    merge_log,
    split_oversize, \* the argument of run_segmentation, set where it is read
    split_log,
    scored_segments, \* compute_final_scores' result, in sorted key order
    segment_id_map,  \* the keys in rank order: the i-th has identifier S<i>
    segments_summary,
    user_mapping,
    mece_report,
    result          \* what run_segmentation returns, and the files written

pipeline == <<input_file_exists, universe, percentiles, leaf_segment, segments, min_size, max_size,
              merge_log, split_oversize, split_log>>

outputs == <<scored_segments, segment_id_map, segments_summary, user_mapping,
             mece_report, result>>

vars == <<pc, pipeline, outputs,
                   input_file_exists>>

\* ------------------------------------------------------------------ helpers

Range(s) == {s[i] : i \in 1..Len(s)}

RECURSIVE SumSeq(_)
SumSeq(s) == IF s = <<>> THEN 0 ELSE Head(s) + SumSeq(Tail(s))

RECURSIVE Concat(_)
Concat(ss) == IF ss = <<>> THEN <<>> ELSE Head(ss) \o Concat(Tail(ss))

Min(a, b) == IF a < b THEN a ELSE b

\* int(math.ceil(a / float(b))) for positive integers.
Ceil(a, b) == (a + b - 1) \div b

\* The indices i with flags[i], in increasing order.
TrueIndices(flags) ==
    LET S == {i \in 1..Len(flags) : flags[i]}
    IN [k \in 1..Cardinality(S) |->
           CHOOSE i \in S : Cardinality({j \in S : j < i}) = k - 1]

\* The k-th smallest (k = 1..Len) of a sequence of integers: sorted(vals)[k-1].
KthSmallest(vals, k) ==
    CHOOSE v \in Range(vals) :
        /\ Cardinality({i \in 1..Len(vals) : vals[i] < v}) < k
        /\ Cardinality({i \in 1..Len(vals) : vals[i] <= v}) >= k

\* ------------------------------------------------------------------ keys

AovBins == <<"HighAOV", "MidAOV", "LowAOV">>

EngBins == <<"HighEng", "LowEng">>

ProfBins == <<"HighProf", "LowProf">>

MkKey(a, e, p) == <<a, e, p, "", 0>>

SinkKey == MkKey("Other", "ELSE", "ELSE")

\* The 12 keys, in the order of the nested loops of aggregate_segments.
LeafKeySeq ==
    [n \in 1..12 |-> MkKey(AovBins[((n - 1) \div 4) + 1],
                           EngBins[(((n - 1) \div 2) % 2) + 1],
                           ProfBins[((n - 1) % 2) + 1])]

LeafKeys == Range(LeafKeySeq)

\* Python's string order on keys.  No part is a prefix of another part that
\* can stand in the same place, so the order of the strings is the order of
\* the parts, place by place.
PartRank(part) ==
    CASE part = "ELSE" -> 0
      [] part = "HighAOV" -> 1 [] part = "LowAOV" -> 2
      [] part = "MidAOV" -> 3 [] part = "Other" -> 4
      [] part = "HighEng" -> 1 [] part = "LowEng" -> 2
      [] part = "HighProf" -> 1 [] part = "LowProf" -> 2
      [] part = "" -> 0 [] part = "SPLIT" -> 1 [] part = "SPLIT_Q" -> 2

KeyRank(k) ==
    (((PartRank(k[1]) * 3 + PartRank(k[2])) * 3 + PartRank(k[3])) * 3
        + PartRank(k[4])) * (NumUsers + 1) + k[5]

KeyLess(k1, k2) == KeyRank(k1) < KeyRank(k2)

\* The key of the set S whose rank is the i-th smallest of the ranks R.
KeyAt(S, R, i) ==
    CHOOSE k \in
        {CHOOSE x \in S : KeyRank(x) = r :
            r \in {CHOOSE q \in R : Cardinality({o \in R : o < q}) = i - 1}} : TRUE

\* sorted(keys) for a set of keys: the i-th has i - 1 keys before it.
SortedKeys(ks) ==
    CHOOSE sorted \in
        {[i \in 1..Cardinality(S) |-> KeyAt(S, R, i)] :
            S \in {ks}, R \in {{KeyRank(k) : k \in ks}}} : TRUE

\* ------------------------------------------------------------------ registry

ZeroMean == [num |-> 0, den |-> 1]

Keys(segs) == {segs[i].key : i \in 1..Len(segs)}

KeySeq(segs) == [i \in 1..Len(segs) |-> segs[i].key]

Has(segs, k) == k \in Keys(segs)

Get(segs, k) == segs[CHOOSE i \in 1..Len(segs) : segs[i].key = k]

Members(segs, k) == Range(Get(segs, k).users)

TotalMembers(segs) == SumSeq([i \in 1..Len(segs) |-> Len(segs[i].users)])

AllMembers(segs) == UNION {Range(segs[i].users) : i \in 1..Len(segs)}

\* ------------------------------------------------------------------ engine

\* np.percentile with the "lower" method: no interpolation between the two
\* neighbouring order statistics.
Percentile_lower(vals, q) ==
    KthSmallest(vals, ((Len(vals) - 1) * q) \div 100 + 1) * 100

\* np.percentile(values, q), linear interpolation, times 100.
Percentile(vals, q) ==
    LET n == Len(vals)
        pos == (n - 1) * q
        j == pos \div 100
        lo == KthSmallest(vals, j + 1)
        hi == IF j + 2 <= n THEN KthSmallest(vals, j + 2) ELSE lo
    IN lo * 100 + (hi - lo) * (pos % 100)

Column(univ, field) == [i \in 1..Len(univ) |-> univ[i][field]]

compute_percentiles(univ) ==
    [AOV_p20 |-> Percentile(Column(univ, "avg_order_value"), 20),
     AOV_p50 |-> Percentile(Column(univ, "avg_order_value"), 50),
     AOV_p80 |-> Percentile(Column(univ, "avg_order_value"), 80),
     eng_p50 |-> Percentile(Column(univ, "engagement_score"), 50),
     prof_p50 |-> Percentile(Column(univ, "profitability_score"), 50)]

\* aov_bin with the high cut taken at or above the 80th percentile.
aov_bin_high_inclusive(value, pct) ==
    IF value * 100 <= pct.AOV_p20 THEN "LowAOV"
    ELSE IF value * 100 >= pct.AOV_p80 THEN "HighAOV"
    ELSE "MidAOV"

aov_bin(value, pct) ==
    IF value * 100 <= pct.AOV_p20 THEN "LowAOV"
    ELSE IF value * 100 > pct.AOV_p80 THEN "HighAOV"
    ELSE "MidAOV"

eng_bin(value, pct) == IF value * 100 > pct.eng_p50 THEN "HighEng" ELSE "LowEng"

prof_bin(value, pct) == IF value * 100 > pct.prof_p50 THEN "HighProf" ELSE "LowProf"

assign_decision_tree_bins(univ, pct) ==
    [u \in 1..Len(univ) |->
        MkKey(aov_bin(univ[u].avg_order_value, pct),
              eng_bin(univ[u].engagement_score, pct),
              prof_bin(univ[u].profitability_score, pct))]

\* recency_factor = ((7 - days) / 7).clip(lower=0), times 7.
recency_factor(days) == IF 7 - days < 0 THEN 0 ELSE 7 - days

\* conversion_potential = engagement_score * recency_factor, in seventieths.
compute_conversion_scores(univ) ==
    [i \in 1..Len(univ) |->
        [univ[i] EXCEPT !.conversion_potential =
            univ[i].engagement_score * recency_factor(univ[i].days_since_abandon)]]

\* Mean of a column over a list of users; 0.0 for an empty list.
MeanOf(univ, users, field) ==
    IF users = <<>> THEN ZeroMean
    ELSE [num |-> SumSeq([i \in 1..Len(users) |-> univ[users[i]][field]]),
          den |-> Len(users)]

Entry(univ, k, users) ==
    [key |-> k, users |-> users, size |-> Len(users),
     conversion_potential |-> MeanOf(univ, users, "conversion_potential"),
     profitability |-> MeanOf(univ, users, "profitability_score"),
     avg_order_value |-> MeanOf(univ, users, "avg_order_value")]

EmptyEntry(k) ==
    [key |-> k, users |-> <<>>, size |-> 0,
     conversion_potential |-> ZeroMean,
     profitability |-> ZeroMean, avg_order_value |-> ZeroMean]

\* GroupUsers that groups by the AOV tier alone.
GroupUsers_by_aov(univ, leaf, k) ==
    LET rows == TrueIndices([i \in 1..Len(univ) |-> leaf[univ[i].user_id][1] = k[1]])
    IN [j \in 1..Len(rows) |-> univ[rows[j]].user_id]

\* The rows of one group, in row order.
GroupUsers(univ, leaf, k) ==
    LET rows == TrueIndices([i \in 1..Len(univ) |-> leaf[univ[i].user_id] = k])
    IN [j \in 1..Len(rows) |-> univ[rows[j]].user_id]

\* aggregate_segments without the loop that adds the missing combinations.
aggregate_segments_no_fill(univ, leaf) ==
    LET present == SortedKeys(Range(leaf))
    IN [i \in 1..Len(present) |->
           Entry(univ, present[i], GroupUsers(univ, leaf, present[i]))]

aggregate_segments(univ, leaf) ==
    LET present == SortedKeys(Range(leaf))
        grouped == [i \in 1..Len(present) |->
                       Entry(univ, present[i], GroupUsers(univ, leaf, present[i]))]
        absent == TrueIndices([n \in 1..12 |-> LeafKeySeq[n] \notin Range(leaf)])
    IN grouped \o [i \in 1..Len(absent) |-> EmptyEntry(LeafKeySeq[absent[i]])]

\* ------------------------------------------------------------------ optimizer

\* _merge_segments that leaves the source keys in the registry.
_merge_segments_keep_sources(segs, destination_key, source_keys) ==
    LET merged_users ==
            Concat([i \in 1..Len(source_keys) |->
                       IF Has(segs, source_keys[i])
                       THEN Get(segs, source_keys[i]).users ELSE <<>>])
        merged == [EmptyEntry(destination_key) EXCEPT
                      !.users = merged_users, !.size = Len(merged_users)]
    IN IF Has(segs, destination_key)
       THEN [i \in 1..Len(segs) |->
                IF segs[i].key = destination_key THEN merged ELSE segs[i]]
       ELSE Append(segs, merged)

\* _merge_segments that assigns each source's member list to merged_users
\* instead of extending it: only the last present source's members are kept.
_merge_segments_last_source(segs, destination_key, source_keys) ==
    LET present == {i \in 1..Len(source_keys) : Has(segs, source_keys[i])}
        merged_users ==
            IF present = {} THEN <<>>
            ELSE Get(segs, source_keys[CHOOSE i \in present :
                                          \A o \in present : o <= i]).users
        Stays(e) == ~(e.key \in Range(source_keys) /\ e.key # destination_key)
        kept == SelectSeq(segs, Stays)
        merged == [EmptyEntry(destination_key) EXCEPT
                      !.users = merged_users, !.size = Len(merged_users)]
    IN IF Has(kept, destination_key)
       THEN [i \in 1..Len(kept) |->
                IF kept[i].key = destination_key THEN merged ELSE kept[i]]
       ELSE Append(kept, merged)

_merge_segments(segs, destination_key, source_keys) ==
    LET merged_users ==
            Concat([i \in 1..Len(source_keys) |->
                       IF Has(segs, source_keys[i])
                       THEN Get(segs, source_keys[i]).users ELSE <<>>])
        Stays(e) == ~(e.key \in Range(source_keys) /\ e.key # destination_key)
        kept == SelectSeq(segs, Stays)
        merged == [EmptyEntry(destination_key) EXCEPT
                      !.users = merged_users, !.size = Len(merged_users)]
    IN IF Has(kept, destination_key)
       THEN [i \in 1..Len(kept) |->
                IF kept[i].key = destination_key THEN merged ELSE kept[i]]
       ELSE Append(kept, merged)

_recompute_stats(segs, univ) ==
    [i \in 1..Len(segs) |->
        IF segs[i].users = <<>> THEN EmptyEntry(segs[i].key)
        ELSE Entry(univ, segs[i].key, segs[i].users)]

\* small_segments that looks at the 12 leaf keys only.
small_segments_leaves_only(segs, mn) ==
    {k \in Keys(segs) : Get(segs, k).size < mn /\ k # SinkKey /\ k[3] # "ELSE"}

\* The keys the outer loop of merge_small_segments finds undersized.
small_segments(segs, mn) ==
    {k \in Keys(segs) : Get(segs, k).size < mn /\ k # SinkKey}

\* The keys of the registry, in dict order, that start with "<aov_part>_".
WithAovPrefix(segs, aov_part) ==
    LET Starts(e) == e.key[1] = aov_part
    IN KeySeq(SelectSeq(segs, Starts))

\* MergeMove whose third branch merges an AOV tier into its own
\* {AOV}_ELSE_ELSE key instead of the sink.
MergeMove_no_sink(segs, segment_key) ==
    LET aov_part == segment_key[1]
        eng_part == segment_key[2]
        prof_part == segment_key[3]
    IN IF prof_part \in {"HighProf", "LowProf"}
       THEN LET sibling_prof == IF prof_part = "HighProf" THEN "LowProf" ELSE "HighProf"
                sibling_key == MkKey(aov_part, eng_part, sibling_prof)
                InReg(k) == Has(segs, k)
            IN [action |-> "merge_profit_sibling",
                sources |-> SelectSeq(<<segment_key, sibling_key>>, InReg),
                parent_key |-> MkKey(aov_part, eng_part, "ELSE")]
       ELSE IF prof_part = "ELSE" /\ eng_part # "ELSE"
       THEN [action |-> "merge_to_aov_parent",
             sources |-> WithAovPrefix(segs, aov_part),
             parent_key |-> MkKey(aov_part, "ELSE", "ELSE")]
       ELSE [action |-> "merge_to_global_other",
             sources |-> WithAovPrefix(segs, aov_part),
             parent_key |-> MkKey(aov_part, "ELSE", "ELSE")]

\* MergeMove whose second and third branches take only the chosen key and
\* the empty keys of its AOV tier as sources.
MergeMove_empty_only(segs, segment_key) ==
    LET aov_part == segment_key[1]
        eng_part == segment_key[2]
        prof_part == segment_key[3]
        Chosen(k) == k = segment_key \/ Get(segs, k).size = 0
    IN IF prof_part \in {"HighProf", "LowProf"}
       THEN LET sibling_prof == IF prof_part = "HighProf" THEN "LowProf" ELSE "HighProf"
                sibling_key == MkKey(aov_part, eng_part, sibling_prof)
                InReg(k) == Has(segs, k)
            IN [action |-> "merge_profit_sibling",
                sources |-> SelectSeq(<<segment_key, sibling_key>>, InReg),
                parent_key |-> MkKey(aov_part, eng_part, "ELSE")]
       ELSE IF prof_part = "ELSE" /\ eng_part # "ELSE"
       THEN [action |-> "merge_to_aov_parent",
             sources |-> SelectSeq(WithAovPrefix(segs, aov_part), Chosen),
             parent_key |-> MkKey(aov_part, "ELSE", "ELSE")]
       ELSE IF eng_part = "ELSE" /\ aov_part # "Other"
       THEN [action |-> "merge_to_global_other",
             sources |-> SelectSeq(WithAovPrefix(segs, aov_part), Chosen),
             parent_key |-> SinkKey]
       ELSE [action |-> "merge_fallback_to_global",
             sources |-> <<segment_key>>,
             parent_key |-> SinkKey]

\* MergeMove whose second branch takes only the keys of the chosen key's own
\* engagement tier into {AOV}_ELSE_ELSE.
MergeMove_same_eng(segs, segment_key) ==
    LET aov_part == segment_key[1]
        eng_part == segment_key[2]
        prof_part == segment_key[3]
        SameEng(k) == k[2] = eng_part
    IN IF prof_part \in {"HighProf", "LowProf"}
       THEN LET sibling_prof == IF prof_part = "HighProf" THEN "LowProf" ELSE "HighProf"
                sibling_key == MkKey(aov_part, eng_part, sibling_prof)
                InReg(k) == Has(segs, k)
            IN [action |-> "merge_profit_sibling",
                sources |-> SelectSeq(<<segment_key, sibling_key>>, InReg),
                parent_key |-> MkKey(aov_part, eng_part, "ELSE")]
       ELSE IF prof_part = "ELSE" /\ eng_part # "ELSE"
       THEN [action |-> "merge_to_aov_parent",
             sources |-> SelectSeq(WithAovPrefix(segs, aov_part), SameEng),
             parent_key |-> MkKey(aov_part, "ELSE", "ELSE")]
       ELSE IF eng_part = "ELSE" /\ aov_part # "Other"
       THEN [action |-> "merge_to_global_other",
             sources |-> WithAovPrefix(segs, aov_part),
             parent_key |-> SinkKey]
       ELSE [action |-> "merge_fallback_to_global",
             sources |-> <<segment_key>>,
             parent_key |-> SinkKey]

\* MergeMove whose second branch merges the keys of the AOV tier into the
\* chosen key {AOV}_{Eng}_ELSE itself instead of {AOV}_ELSE_ELSE.
MergeMove_keeps_eng(segs, segment_key) ==
    LET aov_part == segment_key[1]
        eng_part == segment_key[2]
        prof_part == segment_key[3]
    IN IF prof_part \in {"HighProf", "LowProf"}
       THEN LET sibling_prof == IF prof_part = "HighProf" THEN "LowProf" ELSE "HighProf"
                sibling_key == MkKey(aov_part, eng_part, sibling_prof)
                InReg(k) == Has(segs, k)
            IN [action |-> "merge_profit_sibling",
                sources |-> SelectSeq(<<segment_key, sibling_key>>, InReg),
                parent_key |-> MkKey(aov_part, eng_part, "ELSE")]
       ELSE IF prof_part = "ELSE" /\ eng_part # "ELSE"
       THEN [action |-> "merge_to_aov_parent",
             sources |-> WithAovPrefix(segs, aov_part),
             parent_key |-> MkKey(aov_part, eng_part, "ELSE")]
       ELSE IF eng_part = "ELSE" /\ aov_part # "Other"
       THEN [action |-> "merge_to_global_other",
             sources |-> WithAovPrefix(segs, aov_part),
             parent_key |-> SinkKey]
       ELSE [action |-> "merge_fallback_to_global",
             sources |-> <<segment_key>>,
             parent_key |-> SinkKey]

\* MergeMove whose third branch tests aov_part == "Other" instead of
\* aov_part != "Other".
MergeMove_other_typo(segs, segment_key) ==
    LET aov_part == segment_key[1]
        eng_part == segment_key[2]
        prof_part == segment_key[3]
    IN IF prof_part \in {"HighProf", "LowProf"}
       THEN LET sibling_prof == IF prof_part = "HighProf" THEN "LowProf" ELSE "HighProf"
                sibling_key == MkKey(aov_part, eng_part, sibling_prof)
                InReg(k) == Has(segs, k)
            IN [action |-> "merge_profit_sibling",
                sources |-> SelectSeq(<<segment_key, sibling_key>>, InReg),
                parent_key |-> MkKey(aov_part, eng_part, "ELSE")]
       ELSE IF prof_part = "ELSE" /\ eng_part # "ELSE"
       THEN [action |-> "merge_to_aov_parent",
             sources |-> WithAovPrefix(segs, aov_part),
             parent_key |-> MkKey(aov_part, "ELSE", "ELSE")]
       ELSE IF eng_part = "ELSE" /\ aov_part = "Other"
       THEN [action |-> "merge_to_global_other",
             sources |-> WithAovPrefix(segs, aov_part),
             parent_key |-> SinkKey]
       ELSE [action |-> "merge_fallback_to_global",
             sources |-> <<segment_key>>,
             parent_key |-> SinkKey]

\* The branch merge_small_segments takes for segment_key: the action name,
\* the source keys and the destination.
MergeMove(segs, segment_key) ==
    LET aov_part == segment_key[1]
        eng_part == segment_key[2]
        prof_part == segment_key[3]
    IN IF prof_part \in {"HighProf", "LowProf"}
       THEN LET sibling_prof == IF prof_part = "HighProf" THEN "LowProf" ELSE "HighProf"
                sibling_key == MkKey(aov_part, eng_part, sibling_prof)
                InReg(k) == Has(segs, k)
            IN [action |-> "merge_profit_sibling",
                sources |-> SelectSeq(<<segment_key, sibling_key>>, InReg),
                parent_key |-> MkKey(aov_part, eng_part, "ELSE")]
       ELSE IF prof_part = "ELSE" /\ eng_part # "ELSE"
       THEN [action |-> "merge_to_aov_parent",
             sources |-> WithAovPrefix(segs, aov_part),
             parent_key |-> MkKey(aov_part, "ELSE", "ELSE")]
       ELSE IF eng_part = "ELSE" /\ aov_part # "Other"
       THEN [action |-> "merge_to_global_other",
             sources |-> WithAovPrefix(segs, aov_part),
             parent_key |-> SinkKey]
       ELSE [action |-> "merge_fallback_to_global",
             sources |-> <<segment_key>>,
             parent_key |-> SinkKey]

\* np.quantile(vals, i / num_splits), linear interpolation, times num_splits.
Quantile(vals, i, num_splits) ==
    LET n == Len(vals)
        pos == (n - 1) * i
        j == pos \div num_splits
        lo == KthSmallest(vals, j + 1)
        hi == IF j + 2 <= n THEN KthSmallest(vals, j + 2) ELSE lo
    IN lo * num_splits + (hi - lo) * (pos % num_splits)

SplitKey(k, mode, idx) == <<k[1], k[2], k[3], mode, idx>>

\* The bucket (1..num_splits) of a member with the given sessions: the first
\* cut value it is at or below, else the last bucket.
bucket_idx(sessions, cut_values, num_splits) ==
    LET AtOrBelow == {c \in 1..Len(cut_values) :
                        sessions * num_splits <= cut_values[c]}
    IN IF AtOrBelow = {} THEN Len(cut_values) + 1
       ELSE CHOOSE c \in AtOrBelow : \A o \in AtOrBelow : c <= o

\* SplitUsers with the positional chunks sliced one element too far
\* (users[i:i+max_size+1]).
SplitUsers_long_chunks(e, univ, mx) ==
    LET users == e.users
        num_splits == Ceil(e.size, mx)
        sess == [i \in 1..Len(users) |-> univ[users[i]].sessions_last_30d]
        unique_sessions == Cardinality(Range(sess))
    IN IF unique_sessions <= 1
       THEN [mode |-> "SPLIT",
             lists |-> [c \in 1..Ceil(Len(users), mx) |->
                          SubSeq(users, (c - 1) * mx + 1,
                                 Min(c * mx + 1, Len(users)))]]
       ELSE LET cut_values == [i \in 1..(num_splits - 1) |->
                                  Quantile(sess, i, num_splits)]
                InBucket(b) ==
                    LET Falls(u) ==
                            bucket_idx(univ[u].sessions_last_30d, cut_values,
                                       num_splits) = b
                    IN SelectSeq(users, Falls)
            IN [mode |-> "SPLIT_Q",
                lists |-> [b \in 1..num_splits |-> InBucket(b)]]

\* The branch of split_large_segments for a segment with size > max_size:
\* the user lists of the created segments and the mode.
SplitUsers(e, univ, mx) ==
    LET users == e.users
        num_splits == Ceil(e.size, mx)
        sess == [i \in 1..Len(users) |-> univ[users[i]].sessions_last_30d]
        unique_sessions == Cardinality(Range(sess))
    IN IF unique_sessions <= 1
       THEN [mode |-> "SPLIT",
             lists |-> [c \in 1..Ceil(Len(users), mx) |->
                          SubSeq(users, (c - 1) * mx + 1, Min(c * mx, Len(users)))]]
       ELSE LET cut_values == [i \in 1..(num_splits - 1) |->
                                  Quantile(sess, i, num_splits)]
                InBucket(b) ==
                    LET Falls(u) ==
                            bucket_idx(univ[u].sessions_last_30d, cut_values,
                                       num_splits) = b
                    IN SelectSeq(users, Falls)
            IN [mode |-> "SPLIT_Q",
                lists |-> [b \in 1..num_splits |-> InBucket(b)]]

\* What one registry entry contributes to new_segments and to split_log.
SplitEntry(e, univ, mx) ==
    IF e.size <= mx \/ e.size = 0
    THEN [created |-> <<e>>, log |-> <<>>]
    ELSE LET parts == SplitUsers(e, univ, mx)
             created == [c \in 1..Len(parts.lists) |->
                            [EmptyEntry(SplitKey(e.key, parts.mode, c)) EXCEPT
                                !.users = parts.lists[c],
                                !.size = Len(parts.lists[c])]]
         IN [created |-> created,
             log |-> << [action |-> IF parts.mode = "SPLIT" THEN "split_by_index"
                                    ELSE "split_by_sessions_quantile",
                         original |-> e.key,
                         created |-> KeySeq(created),
                         counts |-> [c \in 1..Len(created) |-> created[c].size]] >>]

split_large_segments(segs, univ, mx) ==
    LET each == [i \in 1..Len(segs) |-> SplitEntry(segs[i], univ, mx)]
    IN [segments |-> _recompute_stats(
                        Concat([i \in 1..Len(segs) |-> each[i].created]), univ),
        split_log |-> Concat([i \in 1..Len(segs) |-> each[i].log])]

\* ------------------------------------------------------------------ scorer

\* Scores are exact fractions [num, den] in lowest terms with den > 0; the
\* code computes them in floating point.
RECURSIVE GCD(_, _)
GCD(a, b) == IF b = 0 THEN a ELSE GCD(b, a % b)

Abs(a) == IF a < 0 THEN 0 - a ELSE a

Frac(n, d) ==
    LET g == GCD(Abs(n), Abs(d))
        sgn == IF d < 0 THEN 0 - 1 ELSE 1
    IN [num |-> sgn * (n \div g), den |-> sgn * (d \div g)]

FracAdd(x, y) == Frac(x.num * y.den + y.num * x.den, x.den * y.den)

FracMul(x, y) == Frac(x.num * y.num, x.den * y.den)

FracLess(x, y) == x.num * y.den < y.num * x.den

Half == Frac(1, 2)

\* The weight w / 100 times x.
Weighted(w, x) == FracMul(Frac(w, 100), x)

_clamp01(value) ==
    IF FracLess(value, Frac(0, 1)) THEN Frac(0, 1)
    ELSE IF FracLess(Frac(1, 1), value) THEN Frac(1, 1)
    ELSE value

\* ComponentScores with the size score taken without subtracting the
\* smallest size: size / (size_max - size_min).
ComponentScores_size_unshifted(e, aov_min, aov_max, size_min, size_max) ==
    [conversion_potential |->
        IF e.size > 0
        THEN Frac(e.conversion_potential.num, e.conversion_potential.den * 70)
        ELSE Frac(0, 1),
     profitability |->
        IF e.size > 0
        THEN Frac(e.profitability.num, e.profitability.den * 10)
        ELSE Frac(0, 1),
     aov_norm |->
        IF aov_max > aov_min /\ e.size > 0
        THEN Frac(e.avg_order_value.num - aov_min * e.avg_order_value.den,
                  e.avg_order_value.den * (aov_max - aov_min))
        ELSE Half,
     size_score |->
        IF size_max # size_min
        THEN Frac(e.size, size_max - size_min)
        ELSE Half]

\* The five component scores of one registry entry.  The entry's mean
\* conversion_potential is in seventieths and its mean profitability in
\* tenths.
ComponentScores(e, aov_min, aov_max, size_min, size_max) ==
    [conversion_potential |->
        IF e.size > 0
        THEN Frac(e.conversion_potential.num, e.conversion_potential.den * 70)
        ELSE Frac(0, 1),
     profitability |->
        IF e.size > 0
        THEN Frac(e.profitability.num, e.profitability.den * 10)
        ELSE Frac(0, 1),
     aov_norm |->
        IF aov_max > aov_min /\ e.size > 0
        THEN Frac(e.avg_order_value.num - aov_min * e.avg_order_value.den,
                  e.avg_order_value.den * (aov_max - aov_min))
        ELSE Half,
     size_score |->
        IF size_max # size_min
        THEN Frac(e.size - size_min, size_max - size_min)
        ELSE Half]

\* The scored segment of one registry entry with component scores c.
ScoredSegment(e, c) ==
    CHOOSE s \in
        {[segment_name |-> e.key,
          size |-> e.size,
          conversion_potential |-> c.conversion_potential,
          profitability |-> c.profitability,
          size_score |-> c.size_score,
          lift_vs_control |-> lift_score,
          strategic_fit |-> strategic_score,
          overall_score |->
              _clamp01(FracAdd(Weighted(30, c.conversion_potential),
                       FracAdd(Weighted(25, lift_score),
                       FracAdd(Weighted(20, c.profitability),
                       FracAdd(Weighted(10, c.size_score),
                               Weighted(15, strategic_score))))))] :
            lift_score \in
                {_clamp01(FracAdd(Weighted(60, c.conversion_potential),
                                  Weighted(40, c.profitability)))},
            strategic_score \in
                {_clamp01(FracAdd(Weighted(40, c.profitability),
                                  Weighted(60, c.aov_norm)))}} : TRUE

SetMin(S) == CHOOSE x \in S : \A y \in S : x <= y

SetMax(S) == CHOOSE x \in S : \A y \in S : x >= y

compute_final_scores(segs, univ) ==
    LET aovs == Range(Column(univ, "avg_order_value"))
        sizes == {segs[i].size : i \in 1..Len(segs)}
    IN CHOOSE scored \in
        {[i \in 1..Len(order) |->
             CHOOSE s \in
                 {ScoredSegment(Get(segs, order[i]), c) :
                     c \in {ComponentScores(Get(segs, order[i]), aov_min, aov_max,
                                            size_min, size_max)}} : TRUE] :
            aov_min \in {SetMin(aovs)},
            aov_max \in {SetMax(aovs)},
            size_min \in {IF sizes = {} THEN 0 ELSE SetMin(sizes)},
            size_max \in {IF sizes = {} THEN 0 ELSE SetMax(sizes)},
            order \in {SortedKeys(Keys(segs))}} : TRUE

\* ------------------------------------------------------------------ output

\* The sort key with the last tie-break reversed: (-overall_score, -size) and
\* then the key descending.
RanksBefore_key_descending(a, b) ==
    \/ FracLess(b.overall_score, a.overall_score)
    \/ /\ a.overall_score = b.overall_score
       /\ \/ a.size > b.size
          \/ a.size = b.size /\ KeyLess(b.segment_name, a.segment_name)

\* The sort key (-overall_score, -size, key) of create_segment_summary.
RanksBefore(a, b) ==
    \/ FracLess(b.overall_score, a.overall_score)
    \/ /\ a.overall_score = b.overall_score
       /\ \/ a.size > b.size
          \/ a.size = b.size /\ KeyLess(a.segment_name, b.segment_name)

\* sorted_keys: the scored keys in rank order.
sorted_keys(scored) ==
    CHOOSE sorted \in
        {[i \in 1..Len(scored) |->
             (CHOOSE x \in S :
                 Cardinality({y \in S : RanksBefore(y, x)}) = i - 1).segment_name] :
            S \in {Range(scored)}} : TRUE

\* f"S{i:03d}": the letter S and the number, padded but never cut.
SegmentId(i) == <<"S", i>>

NoSegmentId == <<"", 0>>

UnassignedId == <<"UNASSIGNED", 0>>

UnassignedName == <<"UNASSIGNED", "", "", "", 0>>

NoKey == <<"", "", "", "", 0>>

\* segment_id_map.get(key): the identifier of a key, None for others.
IdOf(id_map, k) ==
    IF k \in Range(id_map)
    THEN SegmentId(CHOOSE i \in 1..Len(id_map) : id_map[i] = k)
    ELSE NoSegmentId

\* merged_to_map[source]: the destination of the last log entry naming it.
merged_to(mlog, source) ==
    LET naming == {i \in 1..Len(mlog) : source \in Range(mlog[i].from)}
    IN IF naming = {} THEN NoKey ELSE mlog[SetMax(naming)].to

\* The rows of the summary for the ranking id_map: the final segments in
\* rank order, then the merged-away keys in key order.  The columns with the
\* rule text, the notes and the rounded scores are left out.
SummaryRows(id_map, scored, segs, mlog, mn) ==
    LET Scored(k) == CHOOSE x \in Range(scored) : x.segment_name = k
        active == [i \in 1..Len(id_map) |->
                     [segment_id |-> SegmentId(i),
                      segment_name |-> id_map[i],
                      size |-> Scored(id_map[i]).size,
                      overall_score |-> Scored(id_map[i]).overall_score,
                      valid_flag |-> IF Scored(id_map[i]).size >= mn
                                     THEN "Yes" ELSE "No",
                      merged_into |-> NoKey]]
        all_merged_sources ==
            UNION {Range(mlog[i].from) : i \in 1..Len(mlog)}
        merged ==
            CHOOSE rows \in
                {[i \in 1..Len(gone) |->
                     [segment_id |-> NoSegmentId,
                      segment_name |-> gone[i],
                      size |-> IF Has(segs, gone[i]) THEN Get(segs, gone[i]).size
                               ELSE 0,
                      overall_score |-> Frac(0, 1),
                      valid_flag |-> "No",
                      merged_into |-> merged_to(mlog, gone[i])]] :
                    gone \in {SortedKeys(all_merged_sources \ Range(id_map))}} : TRUE
    IN active \o merged

create_segment_summary(scored, segs, mlog, mn) ==
    CHOOSE summary \in
        {[rows |-> SummaryRows(id_map, scored, segs, mlog, mn),
          segment_id_map |-> id_map] : id_map \in {sorted_keys(scored)}} : TRUE

\* user_to_segment[u]: the last registry entry, in dict order, listing u.
create_user_segment_mapping(segs, univ, id_map) ==
    [r \in 1..Len(univ) |->
        LET u == univ[r].user_id
            listing == {i \in 1..Len(segs) : u \in Range(segs[i].users)}
        IN IF listing = {}
           THEN [user_id |-> u, segment_id |-> UnassignedId,
                 segment_name |-> UnassignedName]
           ELSE [user_id |-> u,
                 segment_id |-> IdOf(id_map, segs[SetMax(listing)].key),
                 segment_name |-> segs[SetMax(listing)].key]]

create_mece_report(univ, segs, mlog, slog, mn, mx, mapping) ==
    LET duplicate_count ==
            Cardinality({r \in 1..Len(mapping) :
                            \E q \in 1..(r - 1) : mapping[q].user_id = mapping[r].user_id})
        total_assigned == Len(mapping)
    IN [universe_size |-> Len(univ),
        min_segment_size |-> mn,
        max_segment_size |-> mx,
        segment_counts |-> [i \in 1..Len(segs) |->
                              [key |-> segs[i].key, size |-> segs[i].size]],
        log_entries |-> IF Len(mlog) + Len(slog) = 0 THEN 1
                        ELSE Len(mlog) + Len(slog),
        mece_validation |->
            [duplicate_users |-> duplicate_count,
             exhaustiveness_check |-> (total_assigned = Len(univ)),
             total_users_assigned |-> total_assigned]]

\* ------------------------------------------------------------------ run

\* The attribute rows a universe is drawn from.
Rows ==
    [avg_order_value : AOVValues, engagement_score : EngValues,
     profitability_score : ProfValues, sessions_last_30d : SessionValues,
     days_since_abandon : DaysValues]

RowRank(r) ==
    (((r.avg_order_value * 10 + r.engagement_score) * 10
        + r.profitability_score) * 10 + r.sessions_last_30d) * 10
        + r.days_since_abandon

\* The universes of n rows.  The pipeline treats user_id as an opaque label
\* and keeps row order only inside member lists, so the rows are enumerated
\* up to a permutation: in nondecreasing RowRank.
Universes(n) ==
    {[i \in 1..n |->
        [user_id |-> i, avg_order_value |-> f[i].avg_order_value,
         engagement_score |-> f[i].engagement_score,
         profitability_score |-> f[i].profitability_score,
         sessions_last_30d |-> f[i].sessions_last_30d,
         days_since_abandon |-> f[i].days_since_abandon,
         conversion_potential |-> 0]] :
     f \in {g \in [1..n -> Rows] :
               \A i \in 1..(n - 1) : RowRank(g[i]) <= RowRank(g[i + 1])}}

NoReport ==
    [universe_size |-> 0, min_segment_size |-> 0, max_segment_size |-> 0,
     segment_counts |-> <<>>, log_entries |-> 0,
     mece_validation |-> [duplicate_users |-> 0, exhaustiveness_check |-> FALSE,
                          total_users_assigned |-> 0]]

\* status "running" until run_segmentation returns; outcome: "returned" when
\* the caller gets a result dict, "raised" when an exception reaches it;
\* files: the three output files save_all_outputs has written.
NoResult ==
    [status |-> "running", outcome |-> "running", error_type |-> "",
     files |-> {}, num_segments |-> 0]

OutputFiles == {"segments_summary.csv", "user_segment_map.csv", "mece_report.json"}

NoPercentiles ==
    [AOV_p20 |-> 0, AOV_p50 |-> 0, AOV_p80 |-> 0, eng_p50 |-> 0, prof_p50 |-> 0]

Init ==
    /\ pc = "universe"
    /\ input_file_exists \in BOOLEAN
    /\ IF input_file_exists
       THEN \E n \in 0..NumUsers : universe \in Universes(n)
       ELSE universe = <<>>
    /\ percentiles = NoPercentiles
    /\ leaf_segment = <<>>
    /\ segments = <<>>
    /\ min_size = 0
    /\ max_size = 0
    /\ merge_log = <<>>
    /\ split_oversize = FALSE
    /\ split_log = <<>>
    /\ scored_segments = <<>>
    /\ segment_id_map = <<>>
    /\ segments_summary = <<>>
    /\ user_mapping = <<>>
    /\ mece_report = NoReport
    /\ result = NoResult

\* run_segmentation, lines 36-37 and 104-109: a missing input file raises
\* FileNotFoundError, which the except clause turns into an error result.
InputFileNotFound ==
    /\ pc = "universe"
    /\ ~input_file_exists
    /\ pc' = "error"
    /\ result' = [NoResult EXCEPT !.status = "error", !.outcome = "returned",
                                  !.error_type = "FileNotFoundError"]
    /\ UNCHANGED <<pipeline, scored_segments, segment_id_map, segments_summary,
                   user_mapping, mece_report>>

\* EmptyUniverse without the emptiness check of lines 46-47: the run goes
\* on to write its (empty) outputs and reports success.
EmptyUniverse_no_check ==
    /\ pc = "universe"
    /\ input_file_exists
    /\ Len(universe) = 0
    /\ pc' = "done"
    /\ result' = [NoResult EXCEPT !.status = "success", !.outcome = "returned",
                                  !.files = OutputFiles]
    /\ UNCHANGED <<pipeline, scored_segments, segment_id_map, segments_summary,
                   user_mapping, mece_report>>

\* run_segmentation, lines 46-47 and 104-109: an empty window raises
\* ValueError, which the except clause turns into an error result.
EmptyUniverse ==
    /\ pc = "universe"
    /\ input_file_exists
    /\ Len(universe) = 0
    /\ pc' = "error"
    /\ result' = [NoResult EXCEPT !.status = "error", !.outcome = "returned",
                                  !.error_type = "ValueError"]
    /\ UNCHANGED <<pipeline, scored_segments, segment_id_map, segments_summary,
                   user_mapping, mece_report>>

ComputePercentiles ==
    /\ pc = "universe"
    /\ input_file_exists
    /\ Len(universe) # 0
    /\ percentiles' = compute_percentiles(universe)
    /\ pc' = "percentiles"
    /\ UNCHANGED <<universe, leaf_segment, segments, min_size, max_size,
                   merge_log, split_oversize, split_log, outputs,
                   input_file_exists>>

AssignDecisionTreeBins ==
    /\ pc = "percentiles"
    /\ leaf_segment' = assign_decision_tree_bins(universe, percentiles)
    /\ pc' = "bins"
    /\ UNCHANGED <<universe, percentiles, segments, min_size, max_size,
                   merge_log, split_oversize, split_log, outputs,
                   input_file_exists>>

ComputeConversionScores ==
    /\ pc = "bins"
    /\ universe' = compute_conversion_scores(universe)
    /\ pc' = "scores"
    /\ UNCHANGED <<percentiles, leaf_segment, segments, min_size, max_size,
                   merge_log, split_oversize, split_log, outputs,
                   input_file_exists>>

AggregateSegments ==
    /\ pc = "scores"
    /\ segments' = aggregate_segments(universe, leaf_segment)
    /\ pc' = "aggregated"
    /\ UNCHANGED <<universe, percentiles, leaf_segment, min_size, max_size,
                   merge_log, split_oversize, split_log, outputs,
                   input_file_exists>>

\* determine_size_constraints returns the fixed pair (500, 20000).  The two
\* thresholds are parameters of merge_small_segments and split_large_segments,
\* so they are drawn from ranges on the scale of the model's universes, each
\* where it is first read: min_size here, max_size at the split stage.
DetermineSizeConstraints ==
    /\ pc = "aggregated"
    /\ \E mn \in 1..MaxMinSize : min_size' = mn
    /\ pc' = "merge"
    /\ UNCHANGED <<universe, percentiles, leaf_segment, segments, max_size, merge_log,
                   split_oversize, split_log, outputs,
                   input_file_exists>>

\* MergeIteration that takes the last key of sorted(small_segments) instead
\* of the first.
MergeIteration_last_key ==
    /\ pc = "merge"
    /\ small_segments(segments, min_size) # {}
    /\ \E sorted \in {SortedKeys(small_segments(segments, min_size))} :
       \E segment_key \in {sorted[Len(sorted)]} :
       \E move \in {MergeMove(segments, segment_key)} :
       \E merged \in {_merge_segments(segments, move.parent_key, move.sources)} :
          /\ segments' = _recompute_stats(merged, universe)
          /\ merge_log' = Append(merge_log,
                [action |-> move.action,
                 from |-> move.sources,
                 from_counts |-> [i \in 1..Len(move.sources) |->
                                    Get(segments, move.sources[i]).size],
                 to |-> move.parent_key,
                 to_count |-> Get(merged, move.parent_key).size])
    /\ UNCHANGED <<pc, universe, percentiles, leaf_segment, min_size, max_size,
                   split_oversize, split_log, outputs,
                   input_file_exists>>

\* MergeIteration that logs as to_count the size the chosen key had before
\* the move instead of the destination's size after it.
MergeIteration_stale_to_count ==
    /\ pc = "merge"
    /\ small_segments(segments, min_size) # {}
    /\ \E segment_key \in {SortedKeys(small_segments(segments, min_size))[1]} :
       \E move \in {MergeMove(segments, segment_key)} :
       \E merged \in {_merge_segments(segments, move.parent_key, move.sources)} :
          /\ segments' = _recompute_stats(merged, universe)
          /\ merge_log' = Append(merge_log,
                [action |-> move.action,
                 from |-> move.sources,
                 from_counts |-> [i \in 1..Len(move.sources) |->
                                    Get(segments, move.sources[i]).size],
                 to |-> move.parent_key,
                 to_count |-> Get(segments, segment_key).size])
    /\ UNCHANGED <<pc, universe, percentiles, leaf_segment, min_size, max_size,
                   split_oversize, split_log, outputs,
                   input_file_exists>>

\* One iteration of the outer loop of merge_small_segments that merges: the
\* for loop takes the first key of sorted(small_segments), which is in the
\* registry and has three parts, merges, recomputes and breaks.
MergeIteration ==
    /\ pc = "merge"
    /\ small_segments(segments, min_size) # {}
    /\ \E segment_key \in {SortedKeys(small_segments(segments, min_size))[1]} :
       \E move \in {MergeMove(segments, segment_key)} :
       \E merged \in {_merge_segments(segments, move.parent_key, move.sources)} :
          /\ segments' = _recompute_stats(merged, universe)
          /\ merge_log' = Append(merge_log,
                [action |-> move.action,
                 from |-> move.sources,
                 from_counts |-> [i \in 1..Len(move.sources) |->
                                    Get(segments, move.sources[i]).size],
                 to |-> move.parent_key,
                 to_count |-> Get(merged, move.parent_key).size])
    /\ UNCHANGED <<pc, universe, percentiles, leaf_segment, min_size, max_size,
                   split_oversize, split_log, outputs,
                   input_file_exists>>

\* The loop's exit: no key other than the sink is undersized.
MergeReturn ==
    /\ pc = "merge"
    /\ small_segments(segments, min_size) = {}
    /\ pc' = "merged"
    /\ UNCHANGED <<universe, percentiles, leaf_segment, segments, min_size,
                   max_size, merge_log, split_oversize, split_log, outputs,
                   input_file_exists>>

\* run_segmentation, lines 60-64, with split_oversize false.
SkipSplit ==
    /\ pc = "merged"
    /\ split_oversize' = FALSE
    /\ \E mx \in 1..MaxMaxSize : max_size' = mx
    /\ pc' = "final"
    /\ UNCHANGED <<universe, percentiles, leaf_segment, segments, min_size,
                   merge_log, split_log, outputs,
                   input_file_exists>>

\* run_segmentation, lines 60-64, with split_oversize true.
SplitLargeSegments ==
    /\ pc = "merged"
    /\ split_oversize' = TRUE
    /\ \E mx \in 1..MaxMaxSize :
       \E res \in {split_large_segments(segments, universe, mx)} :
          /\ max_size' = mx
          /\ segments' = res.segments
          /\ split_log' = res.split_log
    /\ pc' = "final"
    /\ UNCHANGED <<universe, percentiles, leaf_segment, min_size, merge_log, outputs,
                   input_file_exists>>

\* ComputeFinalScores with the scorer writing the scaled profitability back
\* into the registry entry it reads (segment_data["profitability"] = ...).
ComputeFinalScores_in_place ==
    /\ pc = "final"
    /\ scored_segments' = compute_final_scores(segments, universe)
    /\ segments' = [i \in 1..Len(segments) |->
                       [segments[i] EXCEPT
                           !.profitability =
                               IF segments[i].size > 0
                               THEN Frac(@.num, @.den * 10) ELSE @]]
    /\ pc' = "scored"
    /\ UNCHANGED <<universe, percentiles, leaf_segment, min_size, max_size,
                   merge_log, split_oversize, split_log, segment_id_map,
                   segments_summary, user_mapping, mece_report, result,
                   input_file_exists>>

ComputeFinalScores ==
    /\ pc = "final"
    /\ scored_segments' = compute_final_scores(segments, universe)
    /\ pc' = "scored"
    /\ UNCHANGED <<pipeline, segment_id_map, segments_summary, user_mapping,
                   mece_report, result>>

\* run_segmentation, lines 68-81: the summary, the mapping and the report.
CreateOutputs ==
    /\ pc = "scored"
    /\ \E summary \in {create_segment_summary(scored_segments, segments,
                                               merge_log, min_size)} :
       \E mapping \in {create_user_segment_mapping(segments, universe,
                                                    summary.segment_id_map)} :
          /\ segments_summary' = summary.rows
          /\ segment_id_map' = summary.segment_id_map
          /\ user_mapping' = mapping
          /\ mece_report' = create_mece_report(universe, segments, merge_log,
                                               split_log, min_size, max_size, mapping)
    /\ pc' = "outputs"
    /\ UNCHANGED <<pipeline, scored_segments, result>>

\* run_segmentation, lines 83-102: the files are written and the success
\* result is returned.
SaveAllOutputs ==
    /\ pc = "outputs"
    /\ result' = [status |-> "success", outcome |-> "returned", error_type |-> "",
                  files |-> OutputFiles, num_segments |-> Len(scored_segments)]
    /\ pc' = "done"
    /\ UNCHANGED <<pipeline, scored_segments, segment_id_map, segments_summary,
                   user_mapping, mece_report>>

Next ==
    \/ InputFileNotFound
    \/ EmptyUniverse
    \/ ComputePercentiles
    \/ AssignDecisionTreeBins
    \/ ComputeConversionScores
    \/ AggregateSegments
    \/ DetermineSizeConstraints
    \/ MergeIteration
    \/ MergeReturn
    \/ SkipSplit
    \/ SplitLargeSegments
    \/ ComputeFinalScores
    \/ CreateOutputs
    \/ SaveAllOutputs

Spec == Init /\ [][Next]_vars

\* ------------------------------------------------------------------ claims

UniverseIds == 1..Len(universe)

AfterMerge == pc \in {"merged", "final", "scored", "outputs", "done"}

\* A step of the merge loop that performs a merge move.
MergeStep == pc = "merge" /\ merge_log' # merge_log

\* How many times user u is listed in the registry, over all member lists.
Occurrences(segs, u) ==
    SumSeq([i \in 1..Len(segs) |->
               Cardinality({j \in 1..Len(segs[i].users) : segs[i].users[j] = u})])

NonSinkKeys(segs) == Keys(segs) \ {SinkKey}

\* The members and the size of a leaf key right after aggregation.
LeafMembers(k) == {u \in UniverseIds : leaf_segment[u] = k}

\* The keys a leaf key is merged into, going up the hierarchy.
ElseAncestors(k) ==
    {MkKey(k[1], k[2], "ELSE"), MkKey(k[1], "ELSE", "ELSE"), SinkKey}

\* C1: after the merge stage, and after the split stage when it runs, the
\* union of the member lists of the registry is the set of the universe's
\* record ids.
C1_Exhaustiveness ==
    AfterMerge => AllMembers(segments) = UniverseIds

\* C2: a merge move leaves the total number of members, summed over the
\* registry, unchanged.
C2_MergeKeepsTotal ==
    [][MergeStep => TotalMembers(segments') = TotalMembers(segments)]_vars

\* C3: during the merge loop and after the split stage no record id is
\* listed more than once in the registry.
C3_MutualExclusivity ==
    pc \in {"aggregated", "merge"} \/ AfterMerge =>
        \A u \in UniverseIds : Occurrences(segments, u) <= 1

\* C3 witness: a run that merged and split, with two members of one merged
\* segment now in two different created segments.
C3_Witness ==
    /\ pc = "final"
    /\ merge_log # <<>>
    /\ split_log # <<>>
    /\ \E i, j \in 1..Len(segments) :
          /\ i # j
          /\ segments[i].users # <<>>
          /\ segments[j].users # <<>>
          /\ segments[i].key[4] # ""
          /\ segments[j].key[4] # ""

\* C4: the mapping built by create_user_segment_mapping has one row for every
\* universe record, in order, and each row carries the identifier of a segment
\* of the final registry that lists the record; no row is "UNASSIGNED".
C4_MappingComplete ==
    pc \in {"outputs", "done"} =>
        /\ Len(user_mapping) = Len(universe)
        /\ \A r \in 1..Len(universe) :
              /\ user_mapping[r].user_id = universe[r].user_id
              /\ user_mapping[r].segment_id # UnassignedId
              /\ \E i \in 1..Len(segment_id_map) :
                    /\ user_mapping[r].segment_id = SegmentId(i)
                    /\ Has(segments, segment_id_map[i])
                    /\ universe[r].user_id
                           \in Range(Get(segments, segment_id_map[i]).users)

\* C5: when merge_small_segments returns, every key other than the sink has
\* size >= min_size.
C5_MinSizeAfterMerge ==
    pc = "merged" =>
        \A k \in NonSinkKeys(segments) : Get(segments, k).size >= min_size

\* C5 witness: the loop returned after merging, and a segment made by a merge
\* survives beside the sink.
C5_Witness ==
    /\ pc = "merged"
    /\ merge_log # <<>>
    /\ \E k \in NonSinkKeys(segments) :
          k[3] = "ELSE" /\ Get(segments, k).size >= min_size

\* C6: the merge loop makes at most 12 moves, every move leaves fewer keys
\* other than the sink than before, and the loop is never stuck: inside it
\* either a merge move or the return can be taken, so it returns after at
\* most 12 iterations.
C6_MergeTerminates ==
    /\ [](Len(merge_log) <= 12)
    /\ [](pc = "merge" => ENABLED (MergeIteration \/ MergeReturn))
    /\ [][MergeStep =>
            Cardinality(NonSinkKeys(segments')) < Cardinality(NonSinkKeys(segments))]_vars

\* C6 witness: a run in which each of the three AOV tiers took a sibling
\* merge, a merge into its AOV parent and a merge into the sink.
C6_Witness == pc = "merged" /\ Len(merge_log) = 9

\* C7: a leaf key that is undersized after aggregation is gone after the
\* merge stage, its members are together in one surviving ELSE-ancestor or
\* in the sink, and a merge log entry lists it among its sources.
C7_ForcedMerge ==
    pc = "merged" =>
        \A k \in LeafKeys :
            Cardinality(LeafMembers(k)) < min_size =>
                /\ ~Has(segments, k)
                /\ \E d \in ElseAncestors(k) :
                      Has(segments, d) /\ LeafMembers(k) \subseteq Members(segments, d)
                /\ \E i \in 1..Len(merge_log) : k \in Range(merge_log[i].from)

\* C8: aggregate_segments returns exactly the 12 leaf keys, and a key without
\* records has size 0, no members and all means 0.0.
C8_LeafEnumeration ==
    pc = "aggregated" =>
        /\ Len(segments) = 12
        /\ Keys(segments) = LeafKeys
        /\ \A k \in LeafKeys :
              LeafMembers(k) = {} =>
                  /\ Get(segments, k).size = 0
                  /\ Get(segments, k).users = <<>>
                  /\ Get(segments, k).conversion_potential.num = 0
                  /\ Get(segments, k).profitability.num = 0
                  /\ Get(segments, k).avg_order_value.num = 0

\* C8 witness: an aggregation with empty and non-empty leaf keys.
C8_Witness ==
    /\ pc = "aggregated"
    /\ \E k1, k2 \in LeafKeys : LeafMembers(k1) = {} /\ LeafMembers(k2) # {}

\* C9: after aggregation the sizes add up to the universe size and every
\* record id is listed once, in the aggregate keyed by the record's tiers.
C9_AggregatePartition ==
    pc = "aggregated" =>
        /\ SumSeq([i \in 1..Len(segments) |-> segments[i].size]) = Len(universe)
        /\ \A u \in UniverseIds :
              /\ Occurrences(segments, u) = 1
              /\ Has(segments, leaf_segment[u])
              /\ u \in Members(segments, leaf_segment[u])
              /\ leaf_segment[u][1] =
                    (IF universe[u].avg_order_value * 100 <= percentiles.AOV_p20
                     THEN "LowAOV"
                     ELSE IF universe[u].avg_order_value * 100 > percentiles.AOV_p80
                     THEN "HighAOV" ELSE "MidAOV")

\* C9 witness: an aggregation of the largest universe over several keys.
C9_Witness ==
    /\ pc = "aggregated"
    /\ Len(universe) = NumUsers
    /\ \E i, j \in 1..Len(segments) :
          i # j /\ segments[i].size > 0 /\ segments[j].size > 0

Binned == pc \notin {"universe", "percentiles", "error"}

AtP20(u) == universe[u].avg_order_value * 100 = percentiles.AOV_p20

AtP80(u) == universe[u].avg_order_value * 100 = percentiles.AOV_p80

AtEngP50(u) == universe[u].engagement_score * 100 = percentiles.eng_p50

AtProfP50(u) == universe[u].profitability_score * 100 = percentiles.prof_p50

\* C10 as stated: a record at the 20th percentile is LowAOV, a record at the
\* 80th percentile is MidAOV, a record at the engagement median is LowEng and
\* a record at the profitability median is LowProf.
C10_Boundaries ==
    Binned =>
        \A u \in UniverseIds :
            /\ AtP20(u) => leaf_segment[u][1] = "LowAOV"
            /\ AtP80(u) => leaf_segment[u][1] = "MidAOV"
            /\ AtEngP50(u) => leaf_segment[u][2] = "LowEng"
            /\ AtProfP50(u) => leaf_segment[u][3] = "LowProf"

\* C10 amended: a record at the 80th percentile is MidAOV when the 20th
\* percentile is below the 80th and LowAOV when the two are equal, never
\* HighAOV; the other three boundaries are as stated.
C10_BoundariesAmended ==
    Binned =>
        \A u \in UniverseIds :
            /\ AtP20(u) => leaf_segment[u][1] = "LowAOV"
            /\ AtP80(u) =>
                  leaf_segment[u][1] =
                      (IF percentiles.AOV_p20 < percentiles.AOV_p80
                       THEN "MidAOV" ELSE "LowAOV")
            /\ AtEngP50(u) => leaf_segment[u][2] = "LowEng"
            /\ AtProfP50(u) => leaf_segment[u][3] = "LowProf"

\* C10 witness: a record exactly at an 80th percentile above the 20th, and
\* records exactly at the two medians.
C10_Witness ==
    /\ pc = "bins"
    /\ percentiles.AOV_p20 < percentiles.AOV_p80
    /\ \E u \in UniverseIds : AtP80(u)
    /\ \E u \in UniverseIds : AtEngP50(u)
    /\ \E u \in UniverseIds : AtProfP50(u)

\* ------------------------------------------------------------------ C11

\* The avg_order_value column of the threshold-tie scenario.
TieScenario == <<10, 10, 10, 10, 10, 10, 10, 10, 90, 90>>

\* The universes as long as the scenario, with every arrangement of the two
\* order values; the other columns are equal in all rows.
TieUniverses ==
    {[i \in 1..Len(TieScenario) |->
        [user_id |-> i, avg_order_value |-> f[i],
         engagement_score |-> 2, profitability_score |-> 2,
         sessions_last_30d |-> 1, days_since_abandon |-> 3,
         conversion_potential |-> 0]] :
     f \in [1..Len(TieScenario) -> AOVValues]}

TieInit ==
    /\ pc = "universe"
    /\ input_file_exists = TRUE
    /\ universe \in TieUniverses
    /\ percentiles = NoPercentiles
    /\ leaf_segment = <<>>
    /\ segments = <<>>
    /\ min_size = 0
    /\ max_size = 0
    /\ merge_log = <<>>
    /\ split_oversize = FALSE
    /\ split_log = <<>>
    /\ scored_segments = <<>>
    /\ segment_id_map = <<>>
    /\ segments_summary = <<>>
    /\ user_mapping = <<>>
    /\ mece_report = NoReport
    /\ result = NoResult

TieNext ==
    \/ ComputePercentiles
    \/ AssignDecisionTreeBins

\* compute_percentiles and assign_decision_tree_bins applied to universes of
\* ten records.
TieSpec == TieInit /\ [][TieNext]_vars

IsTieScenario == Column(universe, "avg_order_value") = TieScenario

\* The AOV bins of the scenario: the eight records of value 10 are LowAOV and
\* the two of value 90 are HighAOV.
TieBins ==
    \A u \in 1..Len(TieScenario) :
        leaf_segment[u][1] = (IF TieScenario[u] = 10 THEN "LowAOV" ELSE "HighAOV")

\* C11 as stated: for the scenario the 20th percentile is 10 and the 80th is
\* 82, the eight records of value 10 are LowAOV and the two of value 90 are
\* HighAOV.
C11_TieScenario ==
    IsTieScenario =>
        /\ pc \in {"percentiles", "bins"} =>
              percentiles.AOV_p20 = 1000 /\ percentiles.AOV_p80 = 8200
        /\ pc = "bins" => TieBins

\* C11 amended: for the scenario the 20th percentile is 10 and the 80th is
\* 26 (position 0.8 * 9 = 7.2 between the order statistics 10 and 90), the
\* eight records of value 10 are LowAOV and the two of value 90 are HighAOV.
C11_TieScenarioAmended ==
    IsTieScenario =>
        /\ pc \in {"percentiles", "bins"} =>
              percentiles.AOV_p20 = 1000 /\ percentiles.AOV_p80 = 2600
        /\ pc = "bins" => TieBins

\* C11 witness: the scenario has been binned.
C11_Witness == IsTieScenario /\ pc = "bins" /\ percentiles.AOV_p80 = 2600

\* ------------------------------------------------------------------ C12, C13

\* A step of the split stage with split_oversize true.
SplitStep == pc = "merged" /\ pc' = "final" /\ split_oversize'

\* The user lists of the segments a split log entry names, in the registry
\* segs.
CreatedUsers(segs, entry) ==
    [c \in 1..Len(entry.created) |-> Get(segs, entry.created[c]).users]

\* The log entry describes a split of the entry e into n parts in the
\* registry segs: n distinct created keys, all in the registry with the logged
\* sizes, the sizes summing to the original size, the member sets pairwise
\* disjoint and their union the original member set.
IsRoundTrip(e, entry, segs, n) ==
    /\ Len(entry.created) = n
    /\ Len(entry.counts) = n
    /\ SumSeq(entry.counts) = e.size
    /\ \A c \in 1..n :
          /\ Has(segs, entry.created[c])
          /\ Get(segs, entry.created[c]).size = entry.counts[c]
          /\ Len(Get(segs, entry.created[c]).users) = entry.counts[c]
    /\ \A c, o \in 1..n :
          c # o =>
             /\ entry.created[c] # entry.created[o]
             /\ Range(CreatedUsers(segs, entry)[c])
                    \cap Range(CreatedUsers(segs, entry)[o]) = {}
    /\ UNION {Range(CreatedUsers(segs, entry)[c]) : c \in 1..n} = Range(e.users)

\* C12: the split stage replaces every segment larger than max_size by
\* ceil(size / max_size) created segments that partition its members, in
\* either mode, and logs one entry with those keys and sizes.
C12_SplitRoundTrip ==
    [][SplitStep =>
          \A i \in 1..Len(segments) :
              segments[i].size > max_size' =>
                  /\ ~Has(segments', segments[i].key)
                  /\ Cardinality({j \in 1..Len(split_log') :
                                     split_log'[j].original = segments[i].key}) = 1
                  /\ \A j \in 1..Len(split_log') :
                        split_log'[j].original = segments[i].key =>
                            /\ split_log'[j].action
                                   \in {"split_by_index", "split_by_sessions_quantile"}
                            /\ \E n \in 1..segments[i].size :
                                  /\ (n - 1) * max_size' < segments[i].size
                                  /\ segments[i].size <= n * max_size'
                                  /\ IsRoundTrip(segments[i], split_log'[j],
                                                 segments', n)]_vars

\* C12 witness: a segment of three members was split by sessions quantiles
\* into three created segments.
C12_Witness ==
    /\ pc = "final"
    /\ max_size = 1
    /\ \E j \in 1..Len(split_log) :
          /\ split_log[j].action = "split_by_sessions_quantile"
          /\ Len(split_log[j].created) = 3

ScoreRows ==
    [avg_order_value : AOVValues, engagement_score : {0, 10},
     profitability_score : {0, 10}, sessions_last_30d : {1},
     days_since_abandon : {0, 6}]

ScoreUniverses(n) ==
    {[i \in 1..n |->
        [user_id |-> i, avg_order_value |-> f[i].avg_order_value,
         engagement_score |-> f[i].engagement_score,
         profitability_score |-> f[i].profitability_score,
         sessions_last_30d |-> f[i].sessions_last_30d,
         days_since_abandon |-> f[i].days_since_abandon,
         conversion_potential |-> 0]] :
     f \in {g \in [1..n -> ScoreRows] :
               \A i \in 1..(n - 1) : RowRank(g[i]) <= RowRank(g[i + 1])}}

ScoreInit ==
    /\ pc = "universe"
    /\ input_file_exists \in BOOLEAN
    /\ IF input_file_exists
       THEN \E n \in 0..NumUsers : universe \in ScoreUniverses(n)
       ELSE universe = <<>>
    /\ percentiles = NoPercentiles
    /\ leaf_segment = <<>>
    /\ segments = <<>>
    /\ min_size = 0
    /\ max_size = 0
    /\ merge_log = <<>>
    /\ split_oversize = FALSE
    /\ split_log = <<>>
    /\ scored_segments = <<>>
    /\ segment_id_map = <<>>
    /\ segments_summary = <<>>
    /\ user_mapping = <<>>
    /\ mece_report = NoReport
    /\ result = NoResult

\* The pipeline on universes whose values are at the ends of their ranges.
ScoreSpec == ScoreInit /\ [][Next]_vars

Scored == pc \in {"scored", "outputs", "done"}

InUnit(x) == ~FracLess(x, Frac(0, 1)) /\ ~FracLess(Frac(1, 1), x)

\* C14: every score compute_final_scores produces, for every final segment,
\* lies in [0, 1].
C14_ScoreBounds ==
    Scored =>
        \A i \in 1..Len(scored_segments) :
            /\ InUnit(scored_segments[i].conversion_potential)
            /\ InUnit(scored_segments[i].profitability)
            /\ InUnit(scored_segments[i].lift_vs_control)
            /\ InUnit(scored_segments[i].size_score)
            /\ InUnit(scored_segments[i].strategic_fit)
            /\ InUnit(scored_segments[i].overall_score)

\* C14 witness: a scored registry with an empty sink, a segment whose
\* conversion potential and profitability are 1.0 and one where they are 0.0.
C14_Witness ==
    /\ pc = "scored"
    /\ \E i \in 1..Len(scored_segments) :
          /\ scored_segments[i].segment_name = SinkKey
          /\ scored_segments[i].size = 0
    /\ \E i \in 1..Len(scored_segments) :
          /\ scored_segments[i].conversion_potential = Frac(1, 1)
          /\ scored_segments[i].profitability = Frac(1, 1)
    /\ \E i \in 1..Len(scored_segments) :
          /\ scored_segments[i].size > 0
          /\ scored_segments[i].conversion_potential = Frac(0, 1)
          /\ scored_segments[i].profitability = Frac(0, 1)

\* ------------------------------------------------------------------ C15

\* A step of the scoring stage.
ScoreStep == pc = "final" /\ pc' = "scored"

Anomalous == \E u \in UniverseIds : Occurrences(segments, u) # 1

\* C16: once the report is built, a record that is in no final segment or in
\* more than one shows in it (exhaustiveness_check false, total_users_assigned
\* different from the universe size, or duplicate_users non-zero), and
\* exhaustiveness_check is true only if every record is in exactly one final
\* segment.
C16_AnomaliesReported ==
    pc \in {"outputs", "done"} =>
        /\ Anomalous =>
              \/ ~mece_report.mece_validation.exhaustiveness_check
              \/ mece_report.mece_validation.total_users_assigned # Len(universe)
              \/ mece_report.mece_validation.duplicate_users # 0
        /\ mece_report.mece_validation.exhaustiveness_check => ~Anomalous

\* ------------------------------------------------------------------ C17

\* The scored segment of the key at place i of the ranking.
Ranked(i) ==
    CHOOSE s \in Range(scored_segments) : s.segment_name = segment_id_map[i]

\* The keys the merge log names as sources that are not final segments.
DissolvedKeys ==
    UNION {Range(merge_log[i].from) : i \in 1..Len(merge_log)} \ Keys(segments)

\* C17: the identifiers S001, S002, ... go to the final segments by
\* descending overall_score, then descending size, then ascending key; every
\* final segment has exactly one identifier, no identifier is shared, and the
\* rows of merged-away keys carry none.
C17_OutputOrdering ==
    pc \in {"outputs", "done"} =>
        /\ Range(segment_id_map) = Keys(segments)
        /\ Len(segment_id_map) = Len(segments)
        /\ \A i, j \in 1..Len(segment_id_map) :
              i < j =>
                 /\ segment_id_map[i] # segment_id_map[j]
                 /\ ~FracLess(Ranked(i).overall_score, Ranked(j).overall_score)
                 /\ Ranked(i).overall_score = Ranked(j).overall_score =>
                       /\ Ranked(i).size >= Ranked(j).size
                       /\ Ranked(i).size = Ranked(j).size =>
                             KeyLess(segment_id_map[i], segment_id_map[j])
        /\ \A i \in 1..Len(segment_id_map) :
              /\ segments_summary[i].segment_id = SegmentId(i)
              /\ segments_summary[i].segment_name = segment_id_map[i]
        /\ \A r \in (Len(segment_id_map) + 1)..Len(segments_summary) :
              /\ segments_summary[r].segment_id = NoSegmentId
              /\ segments_summary[r].segment_name \in DissolvedKeys
        /\ \A k \in DissolvedKeys :
              \E r \in (Len(segment_id_map) + 1)..Len(segments_summary) :
                  segments_summary[r].segment_name = k

\* C17 witness: a summary in which two final segments tie on overall_score
\* and size, two others differ in overall_score, and a merged-away key has a
\* row.
C17_Witness ==
    /\ pc = "outputs"
    /\ DissolvedKeys # {}
    /\ \E i, j \in 1..Len(segment_id_map) :
          /\ i < j
          /\ Ranked(i).overall_score = Ranked(j).overall_score
          /\ Ranked(i).size = Ranked(j).size
    /\ \E i, j \in 1..Len(segment_id_map) :
          FracLess(Ranked(j).overall_score, Ranked(i).overall_score)

\* ------------------------------------------------------------------ C18

EmptyWindow == input_file_exists /\ Len(universe) = 0

\* C19: with an empty window the run does nothing but end in an error of type
\* ValueError: no percentiles, bins, registry, merge, split, scores or
\* outputs are computed and no file is written.
C19_EmptyUniverseAborts ==
    EmptyWindow =>
        /\ pc \in {"universe", "error"}
        /\ pc = "universe" => ENABLED EmptyUniverse /\ ~ENABLED ComputePercentiles
        /\ pc = "error" =>
              result.status = "error" /\ result.error_type = "ValueError"
        /\ percentiles = NoPercentiles
        /\ leaf_segment = <<>>
        /\ segments = <<>>
        /\ merge_log = <<>>
        /\ split_log = <<>>
        /\ scored_segments = <<>>
        /\ segments_summary = <<>>
        /\ user_mapping = <<>>
        /\ mece_report = NoReport
        /\ result.files = {}

\* C19 witness: the run on an empty window has ended in the error.
C19_Witness == EmptyWindow /\ pc = "error" /\ result.error_type = "ValueError"

\* C20: when run_segmentation fails, an exception reaches its caller:
\* FileNotFoundError when the input file does not exist and ValueError for a
\* data issue such as an empty window.
C20_RaisesToCaller ==
    pc = "error" =>
        /\ result.outcome = "raised"
        /\ result.error_type =
              (IF input_file_exists THEN "ValueError" ELSE "FileNotFoundError")

\* ------------------------------------------------------------------ C21

\* A step that stays inside the merge loop: one outer iteration.
IterStep == pc = "merge" /\ pc' = "merge"

\* The undersized keys, stated from the registry: size below min_size, the
\* sink excluded.
Undersized(segs) ==
    {segs[i].key : i \in {j \in 1..Len(segs) :
                            segs[j].size < min_size /\ segs[j].key # SinkKey}}

\* The entry the step appended to the merge log.
NewEntry == merge_log'[Len(merge_log')]

\* C21: an outer iteration appends exactly one entry to the merge log, the
\* entry is the move for the smallest undersized key, and when the iteration
\* ends every size and mean of the registry is the one of its member list.
C21_OneMovePerIteration ==
    [][IterStep =>
          /\ Len(merge_log') = Len(merge_log) + 1
          /\ SubSeq(merge_log', 1, Len(merge_log)) = merge_log
          /\ \E k \in Undersized(segments) :
                /\ \A o \in Undersized(segments) : o = k \/ KeyLess(k, o)
                /\ k \in Range(NewEntry.from)
                /\ ~Has(segments', k) \/ k = NewEntry.to
          /\ \A i \in 1..Len(segments') :
                /\ segments'[i].size = Len(segments'[i].users)
                /\ segments'[i].conversion_potential =
                      MeanOf(universe, segments'[i].users, "conversion_potential")
                /\ segments'[i].profitability =
                      MeanOf(universe, segments'[i].users, "profitability_score")
                /\ segments'[i].avg_order_value =
                      MeanOf(universe, segments'[i].users, "avg_order_value")]_vars

\* C21 witness: the loop has made a move while keys of two AOV tiers were
\* undersized, and is about to evaluate the undersized set again.
C21_Witness ==
    /\ pc = "merge"
    /\ Len(merge_log) >= 1
    /\ \E k, o \in Undersized(segments) : k[1] # o[1]

\* ------------------------------------------------------------------ C22

\* The smallest undersized key of the registry (there is one in every state
\* an iteration starts from).
FirstUndersized ==
    CHOOSE k \in Undersized(segments) :
        \A o \in Undersized(segments) : o = k \/ KeyLess(k, o)

\* The keys of the registry in the AOV tier of k.
SameAov(segs, k) == {o \in Keys(segs) : o[1] = k[1]}

\* The sibling of a leaf key: the other profitability tier.
Sibling(k) == <<k[1], k[2], IF k[3] = "HighProf" THEN "LowProf" ELSE "HighProf", "", 0>>

\* C22: the sources and the destination of a move follow from the tiers of
\* the chosen key k: a leaf goes with its sibling, if present, to
\* {AOV}_{Eng}_ELSE; {AOV}_{Eng}_ELSE goes with every present key of its AOV
\* tier to {AOV}_ELSE_ELSE; {AOV}_ELSE_ELSE goes with every present key of its
\* AOV tier to Other_ELSE_ELSE.
C22_MoveByTiers ==
    [][IterStep =>
          /\ FirstUndersized[3] \in {"HighProf", "LowProf"} =>
                /\ NewEntry.to = <<FirstUndersized[1], FirstUndersized[2], "ELSE", "", 0>>
                /\ Range(NewEntry.from) =
                      {FirstUndersized, Sibling(FirstUndersized)} \cap Keys(segments)
          /\ FirstUndersized[3] = "ELSE" /\ FirstUndersized[2] # "ELSE" =>
                /\ NewEntry.to = <<FirstUndersized[1], "ELSE", "ELSE", "", 0>>
                /\ Range(NewEntry.from) = SameAov(segments, FirstUndersized)
          /\ FirstUndersized[2] = "ELSE" /\ FirstUndersized[1] # "Other" =>
                /\ NewEntry.to = <<"Other", "ELSE", "ELSE", "", 0>>
                /\ Range(NewEntry.from) = SameAov(segments, FirstUndersized)
          /\ Len(NewEntry.from) = Cardinality(Range(NewEntry.from))]_vars

\* C22 witness: a finished loop that made a move of each of the three kinds,
\* the move to the AOV parent taking along a key that was not undersized.
C22_Witness ==
    /\ pc = "merged"
    /\ \E i \in 1..Len(merge_log) : merge_log[i].action = "merge_profit_sibling"
    /\ \E i \in 1..Len(merge_log) : merge_log[i].action = "merge_to_global_other"
    /\ \E i \in 1..Len(merge_log) :
          /\ merge_log[i].action = "merge_to_aov_parent"
          /\ \E c \in 1..Len(merge_log[i].from_counts) :
                merge_log[i].from_counts[c] >= min_size

\* ------------------------------------------------------------------ C23, C24

\* The members of key k in the registry segs; none when k is absent.
MembersOf(segs, k) == IF Has(segs, k) THEN Range(Get(segs, k).users) ELSE {}

\* C23: a merge move removes every source key other than the destination
\* from the registry, and right after it every member of every source is a
\* member of the destination.
C23_NoGapsOnDissolve ==
    [][IterStep =>
          /\ Has(segments', NewEntry.to)
          /\ \A c \in 1..Len(NewEntry.from) :
                /\ NewEntry.from[c] # NewEntry.to => ~Has(segments', NewEntry.from[c])
                /\ MembersOf(segments, NewEntry.from[c])
                      \subseteq MembersOf(segments', NewEntry.to)]_vars

\* C23 witness: a move has merged two source keys that both had members.
C23_Witness ==
    /\ pc = "merge"
    /\ \E i \in 1..Len(merge_log) :
          \E c, o \in 1..Len(merge_log[i].from) :
              /\ c # o
              /\ merge_log[i].from_counts[c] > 0
              /\ merge_log[i].from_counts[o] > 0

\* C24: once the sink is in the registry, no move removes it or takes it as
\* a source, and after every move its members include those it had before.
C24_SinkOnlyGrows ==
    [][IterStep /\ Has(segments, SinkKey) =>
          /\ Has(segments', SinkKey)
          /\ SinkKey \notin Range(NewEntry.from)
          /\ MembersOf(segments, SinkKey) \subseteq MembersOf(segments', SinkKey)]_vars

\* ------------------------------------------------------------------ C25

\* C25: the entry a move appends is accurate: 'from' lists, once each, the
\* keys of the registry that the move dissolved, and the destination when it
\* was itself a source; 'from_counts' are their sizes before the move; 'to' is
\* in the registry after the move with size 'to_count'; and the log grows by
\* one entry per move.
C25_LogAccurate ==
    [][IterStep =>
          /\ Len(merge_log') = Len(merge_log) + 1
          /\ Range(NewEntry.from) \subseteq Keys(segments)
          /\ Range(NewEntry.from) \ {NewEntry.to} = Keys(segments) \ Keys(segments')
          /\ Len(NewEntry.from) = Cardinality(Range(NewEntry.from))
          /\ Len(NewEntry.from_counts) = Len(NewEntry.from)
          /\ \A c \in 1..Len(NewEntry.from) :
                NewEntry.from_counts[c] = Len(Get(segments, NewEntry.from[c]).users)
          /\ Keys(segments') \ Keys(segments) \subseteq {NewEntry.to}
          /\ Has(segments', NewEntry.to)
          /\ NewEntry.to_count = Len(Get(segments', NewEntry.to).users)]_vars

\* C25 witness: the finished log has an entry whose destination is larger
\* than each of its sources.
C25_Witness ==
    /\ pc = "merged"
    /\ \E i \in 1..Len(merge_log) :
          /\ merge_log[i].to_count >= 2
          /\ \A c \in 1..Len(merge_log[i].from) :
                merge_log[i].from_counts[c] < merge_log[i].to_count

\* ------------------------------------------------------------------ C26

\* The states of merge_small_segments: from the 12-leaf registry to the
\* loop's return.
InMergeLoop == pc \in {"aggregated", "merge", "merged"}

\* The keys below the sink that cover the leaf combination k: the leaf
\* itself, {AOV}_{Eng}_ELSE and {AOV}_ELSE_ELSE.
Covering(k) ==
    {k, <<k[1], k[2], "ELSE", "", 0>>, <<k[1], "ELSE", "ELSE", "", 0>>}

\* C26: in every state of the merge loop each leaf combination has at most
\* one of its covering keys in the registry, and the sink is in the registry
\* when it has none.
C26_KeyLevelMECE ==
    InMergeLoop =>
        \A k \in LeafKeys :
            /\ Cardinality(Covering(k) \cap Keys(segments)) <= 1
            /\ Covering(k) \cap Keys(segments) = {} => Has(segments, SinkKey)

\* C26 witness: a registry in the loop with a leaf key, a key
\* {AOV}_{Eng}_ELSE, a key {AOV}_ELSE_ELSE and the sink.
C26_Witness ==
    /\ pc = "merge"
    /\ Has(segments, SinkKey)
    /\ \E k \in Keys(segments) : k[3] # "ELSE"
    /\ \E k \in Keys(segments) : k[3] = "ELSE" /\ k[2] # "ELSE"
    /\ \E k \in Keys(segments) : k[2] = "ELSE" /\ k[1] # "Other"

\* ------------------------------------------------------------------ C27

\* The key k is the leaf key leaf or an ancestor of it: the sink, or a key
\* whose tiers other than ELSE are those of the leaf key.
Matches(k, leaf) ==
    \/ k = SinkKey
    \/ /\ k[1] = leaf[1]
       /\ k[2] \in {"ELSE", leaf[2]}
       /\ k[3] \in {"ELSE", leaf[3]}

\* C27: in every state of the merge loop every member of a segment has a
\* leaf key that the segment's key matches.
C27_MembersMatchRule ==
    InMergeLoop =>
        \A i \in 1..Len(segments) :
            \A u \in Range(segments[i].users) :
                Matches(segments[i].key, leaf_segment[u])

\* C27 witness: the loop has members under a key {AOV}_ELSE_ELSE and members
\* in the sink.
C27_Witness ==
    /\ pc = "merged"
    /\ Has(segments, SinkKey)
    /\ Get(segments, SinkKey).size > 0
    /\ \E k \in Keys(segments) :
          k[2] = "ELSE" /\ k[1] # "Other" /\ Get(segments, k).size > 0

\* ------------------------------------------------------------------ C28

\* C28: starting from the 12-leaf registry no move is the fallback: every
\* logged move is a sibling move, a move to the AOV parent or a move to the
\* sink of a whole AOV tier; while a key is undersized the loop can make a
\* move and cannot return, and it returns only with no key undersized.
C28_NoFallback ==
    /\ \A i \in 1..Len(merge_log) :
          merge_log[i].action \in {"merge_profit_sibling", "merge_to_aov_parent",
                                   "merge_to_global_other"}
    /\ pc = "merge" /\ Undersized(segments) # {} =>
          ENABLED MergeIteration /\ ~ENABLED MergeReturn
    /\ pc = "merged" => Undersized(segments) = {}

\* C28 witness: the loop has returned after a last move that took a whole
\* AOV tier, reached through {AOV}_ELSE_ELSE, to the sink.
C28_Witness ==
    /\ pc = "merged"
    /\ Len(merge_log) >= 3
    /\ merge_log[Len(merge_log)].action = "merge_to_global_other"
    /\ merge_log[Len(merge_log) - 1].action = "merge_to_aov_parent"

\* ------------------------------------------------------------------ C29

\* C29: after the split stage every segment created from an oversized segment
\* has at least one member, whatever the sessions of the members: no logged
\* count and no created registry entry has size 0.
C29_SplitNonEmpty ==
    pc = "final" /\ split_oversize =>
        \A j \in 1..Len(split_log) :
            \A c \in 1..Len(split_log[j].created) :
                /\ split_log[j].counts[c] > 0
                /\ Get(segments, split_log[j].created[c]).size > 0

\* ------------------------------------------------------------------ C30

\* The keys the split stage created.
CreatedKeys == UNION {Range(split_log[j].created) : j \in 1..Len(split_log)}

====
